---- MODULE Spec2Model ----
(***************************************************************************)
(* Model of the EventPhotos view (src/src/components/EventPhotos.tsx):     *)
(* the data-loading effect, the single download and the bulk download.     *)
(* Strings whose content the code inspects (URLs) are sequences of         *)
(* one-character strings; '' is <<>>.                                      *)
(***************************************************************************)
EXTENDS Integers, Sequences, FiniteSets, TLC

VARIABLES route, effectPending, mounted, event, images, loading,
          tasks, navs, attendeeStore, dls, bulks

vars == <<route, effectPending, mounted, event, images, loading,
          tasks, navs, attendeeStore, dls, bulks>>

----------------------------------------------------------------------------
(* Bounds *)
MaxActivations == 2
MaxRecords == 2
MaxUrlsPerRecord == 1
MaxImages == 2
MaxDownloads == 3

(* Input domains *)
EventIds == {"ev1", "ev2"}
EventNames == {"Spring Gala", "Fall Ball"}
Dates == {"2024-05-01", "2024-06-01"}
Urls == {<<"x", "/", "a">>, <<"b">>, <<"x", "/">>}
NoEmail == "null"
Emails == {NoEmail, "u@x"}
NoEvent == [id |-> "null", name |-> "null", date |-> "null"]

LoginPath == "/GoogleLogin"
DashboardPath == "/attendee-dashboard"
DefaultFilename == <<"p", "h", "o", "t", "o", ".", "j", "p", "g">>

RECURSIVE SeqsUpTo(_, _)
SeqsUpTo(S, n) ==
    IF n = 0 THEN {<<>>}
    ELSE LET shorter == SeqsUpTo(S, n - 1)
         IN  shorter \cup {Append(s, x) : s \in {t \in shorter : Len(t) = n - 1}, x \in S}

AttendeeRecords ==
    [eventId : EventIds, uploadedAt : Dates,
     matchedImages : SeqsUpTo(Urls, MaxUrlsPerRecord)]

AttendeeResponses == SeqsUpTo(AttendeeRecords, MaxRecords)

(* what the attendee storage holds for the user in the runs of the view *)
SampleStores ==
    { <<>>,
      <<[eventId |-> "ev1", uploadedAt |-> "2024-05-01",
         matchedImages |-> <<<<"x", "/", "a">>, <<"b">>>>]>>,
      <<[eventId |-> "ev2", uploadedAt |-> "2024-05-01", matchedImages |-> <<<<"x", "/">>>>],
        [eventId |-> "ev1", uploadedAt |-> "2024-06-01", matchedImages |-> <<<<"b">>>>],
        [eventId |-> "ev2", uploadedAt |-> "2024-06-01", matchedImages |-> <<>>]>> }

EventResults(id) ==
    {NoEvent} \cup {[id |-> id, name |-> n, date |-> "2024-05-01"] : n \in EventNames}

----------------------------------------------------------------------------
(* String helpers: url.split('/') and Array.prototype.pop *)
RECURSIVE SplitFrom(_, _, _)
SplitFrom(s, i, cur) ==
    IF i > Len(s) THEN <<cur>>
    ELSE IF s[i] = "/" THEN <<cur>> \o SplitFrom(s, i + 1, <<>>)
    ELSE SplitFrom(s, i + 1, Append(cur, s[i]))

Split(s) == SplitFrom(s, 1, <<>>)

Pop(parts) == parts[Len(parts)]

OrElse(x, d) == IF x = <<>> THEN d ELSE x

RECURSIVE FlatMap(_, _)
FlatMap(F(_), s) == IF s = <<>> THEN <<>> ELSE F(Head(s)) \o FlatMap(F, Tail(s))

MapSeq(F(_), s) == [i \in 1..Len(s) |-> F(s[i])]

(* eventImages without the .filter on eventId *)
eventImages_noFilter(attendeeImageData, eventId, eventDetails) ==
    LET entry(data, url) == [imageId |-> OrElse(Pop(Split(url)), <<>>),
                             eventId |-> data.eventId,
                             eventName |-> eventDetails.name,
                             imageUrl |-> url,
                             matchedDate |-> data.uploadedAt]
        perRecord(data) == MapSeq(LAMBDA url : entry(data, url), data.matchedImages)
    IN  FlatMap(perRecord, attendeeImageData)

(* lines 51-61: filter + flatMap + map *)
eventImages(attendeeImageData, eventId, eventDetails) ==
    LET matching == SelectSeq(attendeeImageData, LAMBDA data : data.eventId = eventId)
        entry(data, url) == [imageId |-> OrElse(Pop(Split(url)), <<>>),
                             eventId |-> data.eventId,
                             eventName |-> eventDetails.name,
                             imageUrl |-> url,
                             matchedDate |-> data.uploadedAt]
        perRecord(data) == MapSeq(LAMBDA url : entry(data, url), data.matchedImages)
    IN  FlatMap(perRecord, matching)

----------------------------------------------------------------------------
(* React state setters: a state update on an unmounted component is dropped *)
SetState(cur, new) == IF mounted THEN new ELSE cur

NewTask(eventId, userEmail) ==
    [eventId |-> eventId, userEmail |-> userEmail, pc |-> "event",
     calls |-> <<"getEventById">>, path |-> "running", navTo |-> "none",
     eventDetails |-> NoEvent, stopped |-> FALSE]

Init ==
    /\ route \in EventIds
    /\ effectPending = TRUE
    /\ mounted = TRUE
    /\ event = NoEvent
    /\ images = <<>>
    /\ loading = TRUE
    /\ tasks = <<>>
    /\ navs = {}
    /\ attendeeStore \in SampleStores
    /\ dls = <<>>
    /\ bulks = <<>>

(* the route's eventId changes while the component stays mounted *)
RouteChange(e) ==
    /\ mounted
    /\ ~effectPending
    /\ e # route
    /\ Len(tasks) < MaxActivations
    /\ route' = e
    /\ effectPending' = TRUE
    /\ UNCHANGED <<mounted, event, images, loading, tasks, navs, attendeeStore, dls, bulks>>

(* RunEffect without the `return` after navigate('/GoogleLogin') *)
RunEffect_noReturn(userEmail) ==
    /\ mounted
    /\ effectPending
    /\ effectPending' = FALSE
    /\ tasks' = Append(tasks, IF userEmail = NoEmail
                              THEN [NewTask(route, userEmail) EXCEPT !.navTo = LoginPath]
                              ELSE NewTask(route, userEmail))
    /\ navs' = IF userEmail = NoEmail THEN navs \cup {LoginPath} ELSE navs
    /\ loading' = TRUE
    /\ UNCHANGED <<route, mounted, event, images, attendeeStore, dls, bulks>>

(* lines 28-72: the effect runs fetchEventPhotos up to its first await *)
RunEffect(userEmail) ==
    /\ mounted
    /\ effectPending
    /\ effectPending' = FALSE
    /\ IF userEmail = NoEmail
       THEN /\ tasks' = Append(tasks, [NewTask(route, userEmail) EXCEPT
                                          !.pc = "done", !.calls = <<>>,
                                          !.path = "nosession", !.navTo = LoginPath,
                                          !.stopped = TRUE])
            /\ navs' = navs \cup {LoginPath}
            /\ loading' = FALSE
       ELSE /\ tasks' = Append(tasks, NewTask(route, userEmail))
            /\ navs' = navs
            /\ loading' = TRUE
    /\ UNCHANGED <<route, mounted, event, images, attendeeStore, dls, bulks>>

(* lines 39, 64-68: getEventById rejects; catch, finally *)
EventThrew(i) ==
    /\ tasks[i].pc = "event"
    /\ tasks' = [tasks EXCEPT ![i].pc = "done", ![i].path = "eventthrew",
                              ![i].stopped = TRUE]
    /\ loading' = SetState(loading, FALSE)
    /\ UNCHANGED <<route, effectPending, mounted, event, images, navs, attendeeStore, dls, bulks>>

(* EventReturned without the `return` after navigate('/attendee-dashboard') *)
EventReturned_noReturn(i, eventDetails) ==
    /\ tasks[i].pc = "event"
    /\ tasks' = [tasks EXCEPT ![i].pc = "images", ![i].eventDetails = eventDetails,
                              ![i].path = IF eventDetails = NoEvent THEN "notfound" ELSE @,
                              ![i].navTo = IF eventDetails = NoEvent THEN DashboardPath ELSE @,
                              ![i].calls = Append(@, "getAllAttendeeImagesByUser")]
    /\ navs' = IF eventDetails = NoEvent THEN navs \cup {DashboardPath} ELSE navs
    /\ event' = SetState(event, eventDetails)
    /\ UNCHANGED <<route, effectPending, mounted, images, loading, attendeeStore, dls, bulks>>

(* lines 39-48, 66-68: getEventById resolves with eventDetails *)
EventReturned(i, eventDetails) ==
    /\ tasks[i].pc = "event"
    /\ IF eventDetails = NoEvent
       THEN /\ tasks' = [tasks EXCEPT ![i].pc = "done", ![i].path = "notfound",
                                      ![i].navTo = DashboardPath, ![i].stopped = TRUE]
            /\ navs' = navs \cup {DashboardPath}
            /\ loading' = SetState(loading, FALSE)
            /\ UNCHANGED event
       ELSE /\ tasks' = [tasks EXCEPT ![i].pc = "images", ![i].eventDetails = eventDetails,
                                      ![i].calls = Append(@, "getAllAttendeeImagesByUser")]
            /\ event' = SetState(event, eventDetails)
            /\ UNCHANGED <<navs, loading>>
    /\ UNCHANGED <<route, effectPending, mounted, images, attendeeStore, dls, bulks>>

(* ImagesThrew without the finally block *)
ImagesThrew_noFinally(i) ==
    /\ tasks[i].pc = "images"
    /\ tasks' = [tasks EXCEPT ![i].pc = "done", ![i].path = "imagesthrew"]
    /\ UNCHANGED <<route, effectPending, mounted, event, images, loading, navs,
                   attendeeStore, dls, bulks>>

(* lines 48, 64-68: getAllAttendeeImagesByUser rejects; catch, finally *)
ImagesThrew(i) ==
    /\ tasks[i].pc = "images"
    /\ tasks' = [tasks EXCEPT ![i].pc = "done", ![i].path = "imagesthrew",
                              ![i].stopped = TRUE]
    /\ loading' = SetState(loading, FALSE)
    /\ UNCHANGED <<route, effectPending, mounted, event, images, navs, attendeeStore, dls, bulks>>

(* lines 48-63, 66-68: getAllAttendeeImagesByUser resolves with the user's records *)
ImagesReturned(i) ==
    /\ tasks[i].pc = "images"
    /\ tasks' = [tasks EXCEPT ![i].pc = "done", ![i].path = "success",
                              ![i].stopped = TRUE]
    /\ images' = SetState(images, eventImages(attendeeStore, tasks[i].eventId,
                                              tasks[i].eventDetails))
    /\ loading' = SetState(loading, FALSE)
    /\ UNCHANGED <<route, effectPending, mounted, event, navs, attendeeStore, dls, bulks>>

(* line 160: Back to Dashboard *)
BackToDashboard ==
    /\ mounted /\ ~effectPending /\ ~loading
    /\ DashboardPath \notin navs
    /\ navs' = navs \cup {DashboardPath}
    /\ UNCHANGED <<route, effectPending, mounted, event, images, loading, tasks, attendeeStore, dls, bulks>>

----------------------------------------------------------------------------
(* Downloads *)
StartNotice == "Starting downloads"
FailWarning == "Some downloads may have failed"

ClickCaller == 0

(* lines 74-82: handleDownload up to the fetch *)
handleDownload(url, by) ==
    [url |-> url, by |-> by, fetch |-> "pending", blob |-> "none",
     opened |-> <<>>, saved |-> <<>>, result |-> "pending"]

(* a catch block that rethrows instead of opening the URL *)
handleDownloadCatch_rethrow(d) ==
    [d EXCEPT !.result = "threw"]

(* lines 118-122: catch: log, open the raw URL in a new tab *)
handleDownloadCatch(d) ==
    [d EXCEPT !.opened = Append(@, d.url), !.result = "returned"]

(* lines 77-92: the fetch settles; r is "reject", "notok" or "ok" *)
handleDownloadFetched(d, r) ==
    IF r = "ok"
    THEN [d EXCEPT !.fetch = r, !.blob = "pending"]
    ELSE handleDownloadCatch([d EXCEPT !.fetch = r])

(* lines 92-117: response.blob() settles; r is "reject" or "ok" *)
handleDownloadBlobRead(d, r) ==
    IF r = "ok"
    THEN [d EXCEPT !.blob = r,
                   !.saved = Append(@, OrElse(Pop(Split(d.url)), DefaultFilename)),
                   !.result = "returned"]
    ELSE handleDownloadCatch([d EXCEPT !.blob = r])

(* a loop that stops at the first download that fell back to window.open *)
handleDownloadAllResumed_abortOnFail(b, d) ==
    IF d.result = "pending" THEN [b EXCEPT !.dl[b.idx] = d]
    ELSE IF d.opened # <<>>
    THEN [b EXCEPT !.dl[b.idx] = d, !.pc = "done", !.alerts = Append(@, FailWarning)]
    ELSE [b EXCEPT !.dl[b.idx] = d, !.pc = "delay"]

(* lines 132-139: handleDownloadAll resumes after `await handleDownload` *)
handleDownloadAllResumed(b, d) ==
    IF d.result = "returned" THEN [b EXCEPT !.dl[b.idx] = d, !.pc = "delay"]
    ELSE IF d.result = "threw"
    THEN [b EXCEPT !.dl[b.idx] = d, !.pc = "done", !.alerts = Append(@, FailWarning)]
    ELSE [b EXCEPT !.dl[b.idx] = d]

RECURSIVE ListTotal(_)
ListTotal(bs) == IF bs = <<>> THEN 0 ELSE Len(Head(bs).list) + ListTotal(Tail(bs))

(* handleDownload calls made so far or still to be made by the running loops *)
Committed == Len(dls) + ListTotal(bulks)

(* line 199: the per-photo download button *)
ClickDownload(j) ==
    /\ mounted /\ ~effectPending /\ ~loading
    /\ j \in 1..Len(images)
    /\ Committed + 1 <= MaxDownloads
    /\ dls' = Append(dls, handleDownload(images[j].imageUrl, ClickCaller))
    /\ UNCHANGED <<route, effectPending, mounted, event, images, loading, tasks, navs, attendeeStore, bulks>>

(* a Download All that starts every download at once *)
ClickDownloadAll_parallel ==
    /\ mounted /\ ~effectPending /\ ~loading
    /\ Len(images) > 0
    /\ Committed + Len(images) <= MaxDownloads
    /\ bulks' = Append(bulks, [list |-> [j \in 1..Len(images) |-> images[j].imageUrl],
                               idx |-> 1, pc |-> "download",
                               alerts |-> <<StartNotice>>,
                               dl |-> [j \in 1..Len(images) |->
                                          handleDownload(images[j].imageUrl, Len(bulks) + 1)]])
    /\ UNCHANGED <<route, effectPending, mounted, event, images, loading, tasks, navs,
                   attendeeStore, dls>>

(* lines 125-132, 173-175: the Download All button, up to the first await *)
ClickDownloadAll ==
    /\ mounted /\ ~effectPending /\ ~loading
    /\ Len(images) > 0
    /\ Committed + Len(images) <= MaxDownloads
    /\ bulks' = Append(bulks, [list |-> [j \in 1..Len(images) |-> images[j].imageUrl],
                               idx |-> 1, pc |-> "download",
                               alerts |-> <<StartNotice>>,
                               dl |-> <<handleDownload(images[1].imageUrl, Len(bulks) + 1)>>])
    /\ UNCHANGED <<route, effectPending, mounted, event, images, loading, tasks, navs, attendeeStore, dls>>

(* a download started by a per-photo click: its fetch settles *)
FetchSettled(n, r) ==
    /\ dls[n].fetch = "pending"
    /\ dls' = [dls EXCEPT ![n] = handleDownloadFetched(@, r)]
    /\ UNCHANGED <<route, effectPending, mounted, event, images, loading, tasks, navs, attendeeStore, bulks>>

(* a download started by a per-photo click: its body read settles *)
BlobSettled(n, r) ==
    /\ dls[n].blob = "pending"
    /\ dls' = [dls EXCEPT ![n] = handleDownloadBlobRead(@, r)]
    /\ UNCHANGED <<route, effectPending, mounted, event, images, loading, tasks, navs, attendeeStore, bulks>>

(* the current download of bulk run k: its fetch settles, the loop resumes *)
BulkFetchSettled(k, r) ==
    /\ bulks[k].pc = "download"
    /\ bulks[k].dl[bulks[k].idx].fetch = "pending"
    /\ bulks' = [bulks EXCEPT ![k] =
                    handleDownloadAllResumed(@, handleDownloadFetched(@.dl[@.idx], r))]
    /\ UNCHANGED <<route, effectPending, mounted, event, images, loading, tasks, navs, attendeeStore, dls>>

(* the current download of bulk run k: its body read settles, the loop resumes *)
BulkBlobSettled(k, r) ==
    /\ bulks[k].pc = "download"
    /\ bulks[k].dl[bulks[k].idx].blob = "pending"
    /\ bulks' = [bulks EXCEPT ![k] =
                    handleDownloadAllResumed(@, handleDownloadBlobRead(@.dl[@.idx], r))]
    /\ UNCHANGED <<route, effectPending, mounted, event, images, loading, tasks, navs, attendeeStore, dls>>

(* lines 131-135: the 500 ms timer fires; the loop takes the next image *)
TimerFired(k) ==
    /\ bulks[k].pc = "delay"
    /\ IF bulks[k].idx < Len(bulks[k].list)
       THEN bulks' = [bulks EXCEPT ![k].idx = @ + 1, ![k].pc = "download",
                                   ![k].dl = Append(@, handleDownload(bulks[k].list[bulks[k].idx + 1], k))]
       ELSE bulks' = [bulks EXCEPT ![k].idx = @ + 1, ![k].pc = "done"]
    /\ UNCHANGED <<route, effectPending, mounted, event, images, loading, tasks, navs, attendeeStore, dls>>

(* the router acts on a requested navigation: the view is unmounted *)
Unmount ==
    /\ mounted
    /\ navs # {}
    /\ mounted' = FALSE
    /\ UNCHANGED <<route, effectPending, event, images, loading, tasks, navs, attendeeStore, dls, bulks>>

(* The loading side of the view: activations and their fetches *)
Next ==
    \/ \E e \in EventIds : RouteChange(e)
    \/ \E em \in Emails : RunEffect(em)
    \/ \E i \in 1..Len(tasks) : EventThrew(i)
    \/ \E i \in 1..Len(tasks) : \E r \in EventResults(tasks[i].eventId) : EventReturned(i, r)
    \/ \E i \in 1..Len(tasks) : ImagesThrew(i)
    \/ \E i \in 1..Len(tasks) : ImagesReturned(i)
    \/ BackToDashboard
    \/ Unmount

Spec == Init /\ [][Next]_vars

(* every collaborator call that was issued eventually returns or throws *)
Settle(i) ==
    /\ i \in 1..Len(tasks)
    /\ \/ EventThrew(i)
       \/ \E r \in EventResults(tasks[i].eventId) : EventReturned(i, r)
       \/ ImagesThrew(i)
       \/ ImagesReturned(i)

FairSpec == Spec /\ \A i \in 1..MaxActivations : WF_vars(Settle(i))

(* The flattening alone: one run awaiting the user's records, over all stores *)
FlattenInit ==
    /\ route \in EventIds
    /\ effectPending = FALSE
    /\ mounted = TRUE
    /\ \E ev \in EventResults(route) \ {NoEvent} :
          /\ event = ev
          /\ tasks = <<[NewTask(route, "u@x") EXCEPT
                          !.pc = "images", !.eventDetails = ev,
                          !.calls = Append(@, "getAllAttendeeImagesByUser")]>>
    /\ images = <<>>
    /\ loading = TRUE
    /\ navs = {}
    /\ attendeeStore \in AttendeeResponses
    /\ dls = <<>>
    /\ bulks = <<>>

FlattenNext == \E i \in 1..Len(tasks) : ImagesReturned(i)

FlattenSpec == FlattenInit /\ [][FlattenNext]_vars

(* The download side: the view after a successful load *)
DownloadUrls == {<<"x", "/", "a">>, <<"x", "/">>}

DownloadStores ==
    SeqsUpTo([eventId : {"ev1"}, uploadedAt : {"2024-05-01"},
              matchedImages : {<<u>> : u \in DownloadUrls}], MaxImages)

DownloadInit ==
    /\ route = "ev1"
    /\ effectPending = FALSE
    /\ mounted = TRUE
    /\ event = [id |-> "ev1", name |-> "Spring Gala", date |-> "2024-05-01"]
    /\ attendeeStore \in DownloadStores
    /\ images = eventImages(attendeeStore, route, event)
    /\ tasks = <<[NewTask(route, "u@x") EXCEPT
                    !.pc = "done", !.path = "success", !.stopped = TRUE,
                    !.eventDetails = event,
                    !.calls = Append(@, "getAllAttendeeImagesByUser")]>>
    /\ loading = FALSE
    /\ navs = {}
    /\ dls = <<>>
    /\ bulks = <<>>

DownloadNext ==
    \/ \E j \in 1..Len(images) : ClickDownload(j)
    \/ ClickDownloadAll
    \/ \E n \in 1..Len(dls) : \E r \in {"reject", "notok", "ok"} : FetchSettled(n, r)
    \/ \E n \in 1..Len(dls) : \E r \in {"reject", "ok"} : BlobSettled(n, r)
    \/ \E k \in 1..Len(bulks) : \E r \in {"reject", "notok", "ok"} : BulkFetchSettled(k, r)
    \/ \E k \in 1..Len(bulks) : \E r \in {"reject", "ok"} : BulkBlobSettled(k, r)
    \/ \E k \in 1..Len(bulks) : TimerFired(k)

DownloadSpec == DownloadInit /\ [][DownloadNext]_vars
----------------------------------------------------------------------------
(* Properties *)

(* C1: every entry of `images` has eventId equal to the route's current
   event identifier, in every reachable state of the mounted view *)
C1_ImagesMatchRoute ==
    mounted => \A j \in 1..Len(images) : images[j].eventId = route

(* C2: an activation that finds no userEmail navigates to '/GoogleLogin' and
   calls neither getEventById nor getAllAttendeeImagesByUser *)
C2_NoSessionRedirects ==
    \A i \in 1..Len(tasks) :
        tasks[i].userEmail = NoEmail =>
            /\ tasks[i].navTo = LoginPath
            /\ LoginPath \in navs
            /\ tasks[i].calls = <<>>

C2_Witness ==
    \E i, j \in 1..Len(tasks) :
        /\ tasks[i].userEmail = NoEmail /\ tasks[i].pc = "done"
        /\ tasks[j].userEmail # NoEmail /\ tasks[j].calls # <<>>

C3_NotFoundState ==
    \A i \in 1..Len(tasks) :
        tasks[i].path = "notfound" =>
            /\ tasks[i].userEmail # NoEmail
            /\ tasks[i].navTo = DashboardPath
            /\ DashboardPath \in navs
            /\ tasks[i].calls = <<"getEventById">>

C3_NotFoundStep ==
    \A i \in 1..Len(tasks) :
        (tasks[i].pc = "event" /\ tasks'[i].path = "notfound") =>
            (event' = event /\ images' = images)

(* C3: with a user token present, an activation whose getEventById returns no
   event navigates to '/attendee-dashboard', never calls
   getAllAttendeeImagesByUser, and leaves `event` and `images` unchanged *)
C3_NotFoundRedirects == [] C3_NotFoundState /\ [][C3_NotFoundStep]_vars

C3_Witness ==
    \E i \in 1..Len(tasks) :
        tasks[i].path = "notfound" /\ images # <<>> /\ event # NoEvent

(* C4: `loading` is true whenever the most recent activation's
   fetchEventPhotos has not yet finished *)
C4_LoadingWhilePending ==
    (mounted /\ tasks # <<>> /\ tasks[Len(tasks)].pc # "done") => loading

Urls_of(b) == [n \in 1..Len(b.dl) |-> b.dl[n].url]

C5_BulkState ==
    \A k \in 1..Len(bulks) :
        LET b == bulks[k] IN
        /\ Len(b.dl) <= Len(b.list)
        /\ Urls_of(b) = SubSeq(b.list, 1, Len(b.dl))
        /\ b.pc = "done" => Len(b.dl) = Len(b.list)
        /\ \A n \in 1..(Len(b.dl) - 1) : b.dl[n].result # "pending"

C5_BulkStep ==
    \A k \in 1..Len(bulks) :
        Len(bulks'[k].dl) # Len(bulks[k].dl) =>
            /\ Len(bulks'[k].dl) = Len(bulks[k].dl) + 1
            /\ bulks[k].pc = "delay"
            /\ bulks[k].dl[Len(bulks[k].dl)].result = "returned"

(* C5: one run of handleDownloadAll over N images issues exactly N
   handleDownload attempts in list order, each after the previous attempt has
   finished and the delay following it has elapsed, whether attempts succeed
   or fail *)
C5_BulkSequential == [] C5_BulkState /\ [][C5_BulkStep]_vars

C5_Witness ==
    \E k \in 1..Len(bulks) :
        /\ bulks[k].pc = "done"
        /\ Len(bulks[k].list) = 2
        /\ bulks[k].dl[1].opened # <<>>
        /\ bulks[k].dl[2].saved # <<>>

Failed(d) == d.fetch \in {"reject", "notok"} \/ d.blob = "reject"

Warnings(b) == Cardinality({n \in 1..Len(b.alerts) : b.alerts[n] = FailWarning})

(* C6: a bulk download in which some single download failed still attempts
   every image and then shows exactly one aggregate warning alert; when no
   item fails it shows none *)
C6_AggregateWarning ==
    \A k \in 1..Len(bulks) :
        bulks[k].pc = "done" =>
            /\ Len(bulks[k].dl) = Len(bulks[k].list)
            /\ Warnings(bulks[k]) =
                 IF \E n \in 1..Len(bulks[k].dl) : Failed(bulks[k].dl[n]) THEN 1 ELSE 0

AllDownloads ==
    {dls[n] : n \in 1..Len(dls)} \cup
    UNION {{bulks[k].dl[n] : n \in 1..Len(bulks[k].dl)} : k \in 1..Len(bulks)}

(* C7: a handleDownload whose fetch fails (rejection or non-OK status) opens
   the raw URL exactly once, triggers no save-as and returns normally; one
   whose fetch and body read succeed triggers the save-as exactly once and
   opens nothing; no handleDownload propagates an error *)
C7_DownloadFallback ==
    \A d \in AllDownloads :
        /\ d.result # "threw"
        /\ d.fetch \in {"reject", "notok"} =>
              (d.opened = <<d.url>> /\ d.saved = <<>> /\ d.result = "returned")
        /\ (d.fetch = "ok" /\ d.blob = "ok") =>
              (Len(d.saved) = 1 /\ d.opened = <<>> /\ d.result = "returned")

C7_Witness ==
    /\ \E d \in AllDownloads : d.fetch = "notok" /\ d.result = "returned"
    /\ \E d \in AllDownloads : d.blob = "ok" /\ d.result = "returned"

PendingFetches ==
    Cardinality({n \in 1..Len(dls) : dls[n].fetch = "pending"}) +
    Cardinality({k \in 1..Len(bulks) :
                    \E n \in 1..Len(bulks[k].dl) : bulks[k].dl[n].fetch = "pending"})

(* C8 as stated: under any interleaving of clicks, no two handleDownload
   fetches are pending simultaneously *)
C8_AtMostOneInFlight == PendingFetches <= 1

(* C8 amended: within one run of handleDownloadAll at most one of its
   handleDownload calls is unfinished at any time *)
C8_BulkSerialized ==
    \A k \in 1..Len(bulks) :
        Cardinality({n \in 1..Len(bulks[k].dl) : bulks[k].dl[n].result = "pending"}) <= 1

C8_Witness ==
    /\ \E n \in 1..Len(dls) : dls[n].result = "pending"
    /\ \E k \in 1..Len(bulks) :
          Len(bulks[k].dl) = 2 /\ bulks[k].dl[2].result = "pending"

TrailingSegment(url) ==
    LET slashes == {k \in 1..Len(url) : url[k] = "/"}
        last == IF slashes = {} THEN 0
                ELSE CHOOSE k \in slashes : \A m \in slashes : m <= k
    IN  SubSeq(url, last + 1, Len(url))

RECURSIVE ReferenceFlattening(_, _, _)
ReferenceFlattening(records, activeId, name) ==
    IF records = <<>> THEN <<>>
    ELSE LET rec == Head(records)
             own == IF rec.eventId = activeId
                    THEN [n \in 1..Len(rec.matchedImages) |->
                            [imageUrl |-> rec.matchedImages[n],
                             imageId |-> TrailingSegment(rec.matchedImages[n]),
                             matchedDate |-> rec.uploadedAt,
                             eventName |-> name,
                             eventId |-> activeId]]
                    ELSE <<>>
         IN  own \o ReferenceFlattening(Tail(records), activeId, name)

C10_StopStep ==
    \A i \in 1..Len(tasks') :
        ((i > Len(tasks) \/ ~tasks[i].stopped) /\ tasks'[i].stopped /\ mounted) =>
            loading' = FALSE

(* C10: provided every issued collaborator call settles, every run of
   fetchEventPhotos eventually sets `loading` to false *)
C10_EveryRunStopsLoading ==
    /\ \A i \in 1..MaxActivations :
          (Len(tasks) >= i) ~> (Len(tasks) >= i /\ tasks[i].stopped)
    /\ [][C10_StopStep]_vars

C10_Witness ==
    /\ mounted /\ ~loading
    /\ \E i \in 1..Len(tasks) : tasks[i].path = "imagesthrew" /\ tasks[i].stopped
    /\ \E i \in 1..Len(tasks) : tasks[i].path = "eventthrew" /\ tasks[i].stopped
====
